---- MODULE Spec2Model ----
(***************************************************************************)
(* Model of the users app of taskflow-test: the CustomUser store           *)
(* (models.py), the registration, login and profile serializers            *)
(* (serializers.py) and the API views (views.py).                          *)
(*                                                                         *)
(* Strings are sequences of one-character strings, so that strip(),        *)
(* lower(), slicing and the regular-expression checks of the code are      *)
(* computed and not assumed.  None (a missing key or a JSON null) is the   *)
(* one-element sequence None, a key the body does not carry is Absent.     *)
(***************************************************************************)
EXTENDS Integers, Sequences, FiniteSets, TLC

VARIABLES users, procs, req, resp, before

vars == <<users, procs, req, resp, before>>

(***************************************************************************)
(* Bounds of the model.                                                    *)
(***************************************************************************)
MaxUsers == 2
NProcs == 2

(***************************************************************************)
(* Program constants.                                                      *)
(***************************************************************************)
NameMaxLength == 30
PasswordMinLength == 8

(***************************************************************************)
(* Characters and strings.                                                 *)
(***************************************************************************)
None == <<"<None>">>
\* a key that the request body does not carry
Absent == <<"<absent>">>

UpperChars == <<"A", "B", "C", "D", "E", "F", "G", "H", "J", "O", "X">>
LowerChars == <<"a", "b", "c", "d", "e", "f", "g", "h", "j", "o", "x">>
DigitChars == {"1", "2"}

Range(s) == {s[i] : i \in 1..Len(s)}

UpperSet == Range(UpperChars)
LowerSet == Range(LowerChars)

IsUpper(c) == c \in UpperSet
IsLower(c) == c \in LowerSet
IsDigit(c) == c \in DigitChars

\* the lowercase letter of each uppercase letter
LowerOf == [c \in UpperSet |-> LowerChars[CHOOSE i \in 1..Len(UpperChars) : UpperChars[i] = c]]

\* str.lower() on one character
LowerChar(c) == IF IsUpper(c) THEN LowerOf[c] ELSE c

\* str.lower()
Lower(s) == [i \in 1..Len(s) |-> LowerChar(s[i])]

RECURSIVE LStrip(_)
LStrip(s) == IF s # <<>> /\ Head(s) = " " THEN LStrip(Tail(s)) ELSE s

RECURSIVE RStrip(_)
RStrip(s) ==
    IF s # <<>> /\ s[Len(s)] = " " THEN RStrip(SubSeq(s, 1, Len(s) - 1)) ELSE s

\* str.strip()
Strip(s) == RStrip(LStrip(s))

\* s[:n]
Truncate(s, n) == IF Len(s) > n THEN SubSeq(s, 1, n) ELSE s

\* c * n
Rep(c, n) == [i \in 1..n |-> c]

HasAt(s) == "@" \in Range(s)
LastAt(s) ==
    LET ats == {i \in 1..Len(s) : s[i] = "@"}
    IN CHOOSE i \in ats : \A j \in ats : j <= i
UserPart(s) == SubSeq(s, 1, LastAt(s) - 1)
DomainPart(s) == SubSeq(s, LastAt(s) + 1, Len(s))

\* BaseUserManager.normalize_email: lowercase the domain part of the address
NormalizeEmail(e) ==
    IF HasAt(e)
    THEN LET at == LastAt(e)
         IN SubSeq(e, 1, at - 1) \o <<"@">> \o Lower(SubSeq(e, at + 1, Len(e)))
    ELSE e

\* dot-separated atoms: no empty atom, only letters and digits in an atom
DotAtoms(s) ==
    /\ s # <<>>
    /\ \A i \in 1..Len(s) : IsUpper(s[i]) \/ IsLower(s[i]) \/ IsDigit(s[i]) \/ s[i] = "."
    /\ s[1] # "." /\ s[Len(s)] # "."
    /\ \A i \in 1..(Len(s) - 1) : ~(s[i] = "." /\ s[i + 1] = ".")

\* length of the last dot-separated label of s
LastLabelLen(s) ==
    LET dots == {i \in 1..Len(s) : s[i] = "."}
        last == CHOOSE i \in dots : \A j \in dots : j <= i
    IN Len(s) - last

\* django EmailValidator behind EmailField: user@domain, the domain with at
\* least one dot and a top-level label of two characters or more
ValidEmailFormat(e) ==
    /\ HasAt(e)
    /\ LET domain == DomainPart(e)
       IN /\ DotAtoms(UserPart(e))
          /\ DotAtoms(domain)
          /\ "." \in Range(domain)
          /\ LastLabelLen(domain) >= 2

\* set_password / check_password: the stored credential is a hash of the raw one
MakePassword(raw) == <<"pbkdf2_sha256$">> \o raw
CheckPassword(raw, hashed) == MakePassword(raw) = hashed

(***************************************************************************)
(* The Identity Store: users is the table users_customuser, a row's        *)
(* primary key is its index.                                               *)
(***************************************************************************)
\* User.objects.filter(email=value).exclude(pk=pk).exists(): an exact match
EmailExists(us, value, pk) ==
    \E i \in 1..Len(us) : i # pk /\ us[i].email = value

\* a table without the unique index
UniqueViolationNoIndex(us, value, pk) == FALSE

\* the unique index on CustomUser.email (unique=True): the insert or update
\* of a row is refused when another row holds the same string
UniqueViolation(us, value, pk) == EmailExists(us, value, pk)

(***************************************************************************)
(* Error messages.                                                         *)
(***************************************************************************)
MsgRequired == "This field is required."
MsgNull == "This field may not be null."
MsgBlank == "This field may not be blank."
MsgInvalidEmail == "Enter a valid email address."
MsgDuplicateEmail == "A user with that email already exists."
MsgMinLength == "Ensure this field has at least 8 characters."
MsgMaxLength == "Ensure this field has no more than 30 characters."
MsgPwLength == "Password must be at least 8 characters long."
MsgPwUpper == "Password must contain at least one uppercase letter."
MsgPwLower == "Password must contain at least one lowercase letter."
MsgPwDigit == "Password must contain at least one number."
MsgPwCommon == "This password is too common."
MsgMismatch == "Passwords do not match."
MsgInvalidCredentials == "Invalid email or password."
MsgDisabled == "User account is disabled."
MsgMissingCredentials == "Must provide email and password."
MsgNotAuthenticated == "Authentication credentials were not provided."
MsgIntegrityError == "IntegrityError: UNIQUE constraint failed: users_customuser.email"

Fields == {"email", "password", "password_confirm", "first_name", "last_name",
           "non_field_errors", "detail"}

NoErrors == [f \in Fields |-> <<>>]

HasErrors(errors) == \E f \in Fields : errors[f] # <<>>

(***************************************************************************)
(* Keyword arguments: validated_data and extra_fields beyond the five      *)
(* fields of a registration.                                               *)
(***************************************************************************)
\* extra_fields, a set of <<key, value>>: no key
NoExtra == {}

\* extra_fields.get(key, default)
Get(extra, key, default) ==
    IF \E kv \in extra : kv[1] = key
    THEN (CHOOSE kv \in extra : kv[1] = key)[2]
    ELSE default

\* extra_fields.setdefault(key, value)
SetDefault(extra, key, value) ==
    IF \E kv \in extra : kv[1] = key THEN extra ELSE extra \cup {<<key, value>>}

(***************************************************************************)
(* Serializer fields.  Each returns [errs, value]: the messages of the     *)
(* field and, when there are none, its validated value.                    *)
(***************************************************************************)
Fail(msg) == [errs |-> <<msg>>, value |-> Absent]
Ok(v) == [errs |-> <<>>, value |-> v]

\* UserRegistrationSerializer.validate_email
RegValidateEmail(us, value) ==
    IF EmailExists(us, value, 0) THEN Fail(MsgDuplicateEmail) ELSE Ok(value)

\* a validate_email that does not leave the instance out of the lookup
ProfileValidateEmailNoExclude(us, value, pk) ==
    IF pk # 0 /\ EmailExists(us, value, 0) THEN Fail(MsgDuplicateEmail) ELSE Ok(value)

\* UserProfileSerializer.validate_email; pk = 0 when there is no instance
ProfileValidateEmail(us, value, pk) ==
    IF pk # 0 /\ EmailExists(us, value, pk) THEN Fail(MsgDuplicateEmail) ELSE Ok(value)

\* the email field a ModelSerializer builds for CustomUser.email: required,
\* trimmed, UniqueValidator (that leaves out the instance) and EmailValidator,
\* both run and both reported
ModelEmailField(us, v, pk, partial) ==
    IF v = Absent THEN (IF partial THEN Ok(Absent) ELSE Fail(MsgRequired))
    ELSE IF v = None THEN Fail(MsgNull)
    ELSE IF Strip(v) = <<>> THEN Fail(MsgBlank)
    ELSE LET value == Strip(v)
             errs == (IF EmailExists(us, value, pk) THEN <<MsgDuplicateEmail>> ELSE <<>>)
                     \o (IF ValidEmailFormat(value) THEN <<>> ELSE <<MsgInvalidEmail>>)
         IN IF errs # <<>> THEN [errs |-> errs, value |-> Absent] ELSE Ok(value)

\* django.contrib.auth.password_validation.validate_password: the checks
\* configured in the project's settings, whose verdict is an input here
DjangoPasswordChecks == {<<>>, <<MsgPwCommon>>}

\* UserRegistrationSerializer.validate_password: each rule raises at once
ValidatePassword(value, django) ==
    IF Len(value) < PasswordMinLength THEN <<MsgPwLength>>
    ELSE IF ~\E i \in 1..Len(value) : IsUpper(value[i]) THEN <<MsgPwUpper>>
    ELSE IF ~\E i \in 1..Len(value) : IsLower(value[i]) THEN <<MsgPwLower>>
    ELSE IF ~\E i \in 1..Len(value) : IsDigit(value[i]) THEN <<MsgPwDigit>>
    ELSE django

\* password = CharField(write_only=True, min_length=8), then validate_password
PasswordField(v, django) ==
    IF v = Absent THEN Fail(MsgRequired)
    ELSE IF v = None THEN Fail(MsgNull)
    ELSE IF Strip(v) = <<>> THEN Fail(MsgBlank)
    ELSE LET value == Strip(v) IN
         IF Len(value) < PasswordMinLength THEN Fail(MsgMinLength)
         ELSE IF ValidatePassword(value, django) # <<>>
              THEN [errs |-> ValidatePassword(value, django), value |-> Absent]
              ELSE Ok(value)

\* password_confirm = CharField(write_only=True); also the login fields
RequiredCharField(v) ==
    IF v = Absent THEN Fail(MsgRequired)
    ELSE IF v = None THEN Fail(MsgNull)
    ELSE IF Strip(v) = <<>> THEN Fail(MsgBlank)
    ELSE Ok(Strip(v))

\* the field built for CharField(max_length=30, blank=True, null=True)
NameField(v) ==
    IF v = Absent THEN Ok(Absent)
    ELSE IF v = None THEN Ok(None)
    ELSE IF Len(Strip(v)) > NameMaxLength THEN Fail(MsgMaxLength)
    ELSE Ok(Strip(v))

\* a serializer with a field for every column of the model
RegExtraFieldsAll(extra) == extra

\* UserRegistrationSerializer.Meta.fields names none of is_staff,
\* is_superuser and is_active: the serializer has no field for them and
\* their keys never reach validated_data
RegExtraFields(extra) == NoExtra

\* a validate() that compares nothing
RegValidateNoCheck(attrs) == <<>>

\* UserRegistrationSerializer.validate
RegValidate(attrs) ==
    IF attrs.password # attrs.password_confirm THEN <<MsgMismatch>> ELSE <<>>

\* UserRegistrationSerializer(data=...).is_valid(): every field is validated
\* and the field errors are collected; validate() runs only without any
RegistrationIsValid(us, data, django) ==
    LET e == ModelEmailField(us, data.email, 0, FALSE)
        e2 == IF e.errs = <<>> THEN RegValidateEmail(us, e.value) ELSE e
        p == PasswordField(data.password, django)
        c == RequiredCharField(data.password_confirm)
        f == NameField(data.first_name)
        l == NameField(data.last_name)
        fieldErrors == [NoErrors EXCEPT !.email = e2.errs, !.password = p.errs,
                            !.password_confirm = c.errs, !.first_name = f.errs,
                            !.last_name = l.errs]
        attrs == [email |-> e2.value, password |-> p.value,
                  password_confirm |-> c.value, first_name |-> f.value,
                  last_name |-> l.value, extra |-> RegExtraFields(data.extra)]
    IN IF HasErrors(fieldErrors) THEN [errors |-> fieldErrors, attrs |-> attrs]
       ELSE [errors |-> [NoErrors EXCEPT !.password_confirm = RegValidate(attrs)],
             attrs |-> attrs]

(***************************************************************************)
(* models.py: CustomUserManager and CustomUser.                            *)
(***************************************************************************)
\* extra_fields[name][:30] when the key is there and its value is truthy;
\* a key that is not there takes the column's default, NULL
CreateName(v) ==
    IF v = Absent THEN None
    ELSE IF v = None \/ v = <<>> THEN v
    ELSE Truncate(v, NameMaxLength)

\* created_at (auto_now_add=True) is the time of the insert; time is logical
\* here, the number of the insert.  updated_at (auto_now=True), which every
\* save sets, is left out of the rows.
Now(us) == Len(us) + 1

\* CustomUserManager._create_user; a flag that extra_fields does not hold
\* takes the default of AbstractUser's column.
\* [raised, users, pk]: the exception raised ("" for none), the table and the
\* new row's key
CreateUserImpl(us, email, password, first_name, last_name, extra) ==
    IF email = Absent \/ email = None \/ email = <<>>
    THEN [raised |-> "ValueError: The Email field must be set", users |-> us, pk |-> 0]
    ELSE IF password = Absent \/ password = None \/ password = <<>>
    THEN [raised |-> "ValueError: The Password field must be set", users |-> us, pk |-> 0]
    ELSE LET normalized == Strip(Lower(NormalizeEmail(email)))
             user == [email |-> normalized,
                      password |-> MakePassword(password),
                      first_name |-> CreateName(first_name),
                      last_name |-> CreateName(last_name),
                      is_active |-> Get(extra, "is_active", TRUE),
                      is_staff |-> Get(extra, "is_staff", FALSE),
                      is_superuser |-> Get(extra, "is_superuser", FALSE),
                      created_at |-> Now(us)]
         IN IF UniqueViolation(us, normalized, 0)
            THEN [raised |-> MsgIntegrityError, users |-> us, pk |-> 0]
            ELSE [raised |-> "", users |-> Append(us, user), pk |-> Len(us) + 1]

\* CustomUserManager.create_user
CreateUser(us, email, password, first_name, last_name, extra) ==
    CreateUserImpl(us, email, password, first_name, last_name,
                   SetDefault(SetDefault(extra, "is_staff", FALSE),
                              "is_superuser", FALSE))

\* str(value) inside an f-string: None is formatted as the text None
Format(v) == IF v = None THEN <<"N", "o", "n", "e">> ELSE v

\* CustomUser.get_full_name
GetFullName(u) ==
    LET full_name == Strip(Format(u.first_name) \o <<" ">> \o Format(u.last_name))
    IN IF full_name # <<>> THEN full_name ELSE u.email

(***************************************************************************)
(* Responses.  user is the set holding the serialized profile, when the    *)
(* body carries one; access and refresh name the user the tokens are for,  *)
(* 0 when the body carries no token.  Status 500 is an exception that      *)
(* left the view.                                                          *)
(***************************************************************************)
\* UserProfileSerializer(user).data
ProfileData(u) ==
    [email |-> u.email, first_name |-> u.first_name, last_name |-> u.last_name,
     created_at |-> u.created_at]

Response(op, status, errors, user, token) ==
    [op |-> op, status |-> status, errors |-> errors, user |-> user,
     access |-> token, refresh |-> token]

NoResponse == Response("none", 0, NoErrors, {}, 0)

ErrorResponse(op, errors) == Response(op, 400, errors, {}, 0)

\* an exception no handler catches
Unhandled(op, raised) ==
    Response(op, 500, [NoErrors EXCEPT !.detail = <<raised>>], {}, 0)

\* serializer.save() and the rest of UserRegistrationView.post, for attrs that
\* passed is_valid(): create() drops password_confirm and calls create_user
RegisterSaveOutcome(us, attrs) ==
    LET c == CreateUser(us, attrs.email, attrs.password, attrs.first_name,
                        attrs.last_name, attrs.extra)
    IN IF c.raised # ""
       THEN [users |-> us, resp |-> Unhandled("register", c.raised)]
       ELSE [users |-> c.users,
             resp |-> Response("register", 201, NoErrors,
                               {ProfileData(c.users[c.pk])}, c.pk)]

\* a view that saves before it looks at the result of is_valid()
RegisterOutcomeSavesFirst(us, data, django) ==
    LET v == RegistrationIsValid(us, data, django)
    IN IF HasErrors(v.errors)
       THEN [users |-> CreateUser(us, Strip(data.email), data.password,
                                  data.first_name, data.last_name, NoExtra).users,
             resp |-> ErrorResponse("register", v.errors)]
       ELSE RegisterSaveOutcome(us, v.attrs)

\* UserRegistrationView.post
RegisterOutcome(us, data, django) ==
    LET v == RegistrationIsValid(us, data, django)
    IN IF HasErrors(v.errors)
       THEN [users |-> us, resp |-> ErrorResponse("register", v.errors)]
       ELSE RegisterSaveOutcome(us, v.attrs)

(***************************************************************************)
(* Login.                                                                  *)
(***************************************************************************)
\* the authentication backends the project's settings may give authenticate()
Backends == {"ModelBackend", "AllowAllUsersModelBackend"}

\* django.contrib.auth.authenticate(username=email, password=password): the
\* row whose email is exactly the given one, when the password matches and
\* the backend lets the user authenticate (ModelBackend, the default, refuses
\* a user that is not active); 0 stands for None
Authenticate(us, be, email, password) ==
    LET found == {i \in 1..Len(us) : us[i].email = email}
    IN IF found = {} THEN 0
       ELSE LET i == CHOOSE i \in found : TRUE
            IN IF /\ CheckPassword(password, us[i].password)
                  /\ (us[i].is_active \/ be = "AllowAllUsersModelBackend")
               THEN i ELSE 0

\* email = serializers.EmailField()
LoginEmailField(v) ==
    LET r == RequiredCharField(v)
    IN IF r.errs = <<>> /\ ~ValidEmailFormat(r.value) THEN Fail(MsgInvalidEmail) ELSE r

\* a validate() that tells an unknown email from a wrong password
LoginValidateTelling(us, be, email, password) ==
    IF \A i \in 1..Len(us) : us[i].email # email
    THEN [errs |-> <<"No account with that email.">>, user |-> 0]
    ELSE LET user == Authenticate(us, be, email, password)
         IN IF user = 0 THEN [errs |-> <<MsgInvalidCredentials>>, user |-> 0]
            ELSE IF ~us[user].is_active THEN [errs |-> <<MsgDisabled>>, user |-> 0]
            ELSE [errs |-> <<>>, user |-> user]

\* a validate() that does not look at is_active
LoginValidateNoActiveCheck(us, be, email, password) ==
    IF email # <<>> /\ password # <<>>
    THEN LET user == Authenticate(us, be, email, password)
         IN IF user = 0 THEN [errs |-> <<MsgInvalidCredentials>>, user |-> 0]
            ELSE [errs |-> <<>>, user |-> user]
    ELSE [errs |-> <<MsgMissingCredentials>>, user |-> 0]

\* UserLoginSerializer.validate: [errs, user]
LoginValidate(us, be, email, password) ==
    IF email # <<>> /\ password # <<>>
    THEN LET user == Authenticate(us, be, email, password)
         IN IF user = 0 THEN [errs |-> <<MsgInvalidCredentials>>, user |-> 0]
            ELSE IF ~us[user].is_active THEN [errs |-> <<MsgDisabled>>, user |-> 0]
            ELSE [errs |-> <<>>, user |-> user]
    ELSE [errs |-> <<MsgMissingCredentials>>, user |-> 0]

\* a view that returns the errors without status=400: the default, 200
LoginOutcomeDefaultStatus(us, be, data) ==
    LET e == LoginEmailField(data.email)
        p == RequiredCharField(data.password)
        fieldErrors == [NoErrors EXCEPT !.email = e.errs, !.password = p.errs]
    IN IF HasErrors(fieldErrors) THEN Response("login", 200, fieldErrors, {}, 0)
       ELSE LET v == LoginValidate(us, be, e.value, p.value)
            IN IF v.errs # <<>>
               THEN Response("login", 200,
                             [NoErrors EXCEPT !.non_field_errors = v.errs], {}, 0)
               ELSE Response("login", 200, NoErrors, {ProfileData(us[v.user])}, v.user)

\* UserLoginView.post
LoginOutcome(us, be, data) ==
    LET e == LoginEmailField(data.email)
        p == RequiredCharField(data.password)
        fieldErrors == [NoErrors EXCEPT !.email = e.errs, !.password = p.errs]
    IN IF HasErrors(fieldErrors) THEN ErrorResponse("login", fieldErrors)
       ELSE LET v == LoginValidate(us, be, e.value, p.value)
            IN IF v.errs # <<>>
               THEN ErrorResponse("login", [NoErrors EXCEPT !.non_field_errors = v.errs])
               ELSE Response("login", 200, NoErrors, {ProfileData(us[v.user])}, v.user)

(***************************************************************************)
(* Profile.                                                                *)
(***************************************************************************)
\* a permission that any token of a stored user passes
IsAuthenticatedAnyUser(us, token) == token \in 1..Len(us)

\* permission_classes = [IsAuthenticated]: the bearer token names a stored,
\* active user (token = 0: no token or an invalid one)
IsAuthenticated(us, token) ==
    token \in 1..Len(us) /\ us[token].is_active

Unauthenticated(op) ==
    Response(op, 401, [NoErrors EXCEPT !.detail = <<MsgNotAuthenticated>>], {}, 0)

\* UserProfileView.get
GetProfileOutcome(us, token) ==
    IF ~IsAuthenticated(us, token) THEN Unauthenticated("get_profile")
    ELSE Response("get_profile", 200, NoErrors, {ProfileData(us[token])}, 0)

\* a serializer that takes every key of the payload
ProfileExtraFieldsAll(extra) == extra

\* UserProfileSerializer.Meta: fields names no password and no flag, and
\* created_at and updated_at are read-only, so none of these keys of a
\* payload reaches validated_data
ProfileExtraFields(extra) == NoExtra

\* UserProfileSerializer(request.user, data=..., partial=...).is_valid()
ProfileIsValid(us, pk, data, partial) ==
    LET e == ModelEmailField(us, data.email, pk, partial)
        e2 == IF e.errs = <<>> /\ e.value # Absent
              THEN ProfileValidateEmail(us, e.value, pk) ELSE e
        f == NameField(data.first_name)
        l == NameField(data.last_name)
    IN [errors |-> [NoErrors EXCEPT !.email = e2.errs, !.first_name = f.errs,
                        !.last_name = l.errs],
        attrs |-> [email |-> e2.value, first_name |-> f.value, last_name |-> l.value,
                   extra |-> ProfileExtraFields(data.extra)]]

\* an update that clears the names the payload does not carry
UpdatedUserReplaces(u, attrs) ==
    [u EXCEPT !.email = IF attrs.email = Absent THEN @ ELSE attrs.email,
              !.first_name = IF attrs.first_name = Absent THEN None ELSE attrs.first_name,
              !.last_name = IF attrs.last_name = Absent THEN None ELSE attrs.last_name]

\* ModelSerializer.update: setattr for every validated key
UpdatedUser(u, attrs) ==
    [u EXCEPT !.email = IF attrs.email = Absent THEN @ ELSE attrs.email,
              !.first_name = IF attrs.first_name = Absent THEN @ ELSE attrs.first_name,
              !.last_name = IF attrs.last_name = Absent THEN @ ELSE attrs.last_name,
              !.password = Get(attrs.extra, "password", @),
              !.is_active = Get(attrs.extra, "is_active", @),
              !.is_staff = Get(attrs.extra, "is_staff", @),
              !.is_superuser = Get(attrs.extra, "is_superuser", @),
              !.created_at = Get(attrs.extra, "created_at", @)]

\* a view that saves what was validated before it looks at the errors
UpdateOutcomeSavesFirst(us, token, data, partial) ==
    LET op == IF partial THEN "patch" ELSE "put"
    IN IF ~IsAuthenticated(us, token)
       THEN [users |-> us, resp |-> Unauthenticated(op)]
       ELSE LET v == ProfileIsValid(us, token, data, partial)
                u == UpdatedUser(us[token], v.attrs)
            IN IF UniqueViolation(us, u.email, token)
               THEN [users |-> us, resp |-> Unhandled(op, MsgIntegrityError)]
               ELSE IF HasErrors(v.errors)
               THEN [users |-> [us EXCEPT ![token] = u],
                     resp |-> ErrorResponse(op, v.errors)]
               ELSE [users |-> [us EXCEPT ![token] = u],
                     resp |-> Response(op, 200, NoErrors, {ProfileData(u)}, 0)]

\* UserProfileView.put (partial = FALSE) and UserProfileView.patch
UpdateOutcome(us, token, data, partial) ==
    LET op == IF partial THEN "patch" ELSE "put"
    IN IF ~IsAuthenticated(us, token)
       THEN [users |-> us, resp |-> Unauthenticated(op)]
       ELSE LET v == ProfileIsValid(us, token, data, partial)
                u == UpdatedUser(us[token], v.attrs)
            IN IF HasErrors(v.errors)
               THEN [users |-> us, resp |-> ErrorResponse(op, v.errors)]
               ELSE IF UniqueViolation(us, u.email, token)
               THEN [users |-> us, resp |-> Unhandled(op, MsgIntegrityError)]
               ELSE [users |-> [us EXCEPT ![token] = u],
                     resp |-> Response(op, 200, NoErrors, {ProfileData(u)}, 0)]

(***************************************************************************)
(* Request bodies.                                                         *)
(***************************************************************************)
EmailLower == <<"a", "@", "x", ".", "c", "o">>
EmailPadded == <<" ", "A", "@", "x", ".", "c", "o", " ">>
EmailOther == <<"b", "@", "x", ".", "c", "o">>
EmailUpper == <<"A", "@", "x", ".", "c", "o">>
EmailInvalid == <<"a", "x">>

PwGood == <<"A", "b", "c", "d", "e", "f", "g", "1">>
PwOther == <<"X", "b", "c", "d", "e", "f", "g", "2">>
PwShort == <<"a", "b">>
PwLowerOnly == <<"a", "b", "c", "d", "e", "f", "g", "h">>
PwNoLower == <<"A", "B", "C", "D", "E", "F", "G", "1">>
PwNoDigit == <<"A", "b", "c", "d", "e", "f", "g", "h">>

NameShort == <<"J", "o">>
NameLong == Rep("A", NameMaxLength + 1)

EmailInputs == {EmailLower, EmailPadded, EmailOther, EmailInvalid, Absent}
PasswordInputs == {PwGood, PwShort, PwLowerOnly, PwNoLower, PwNoDigit}
ConfirmInputs == {PwGood, PwShort}
FirstNameInputs == {Absent, NameShort, NameLong}
LastNameInputs == {Absent, NameShort}

\* the other keys of a body, as a set of <<key, value>>: a body that asks for
\* a staff, superuser, inactive account
ExtraFlags == {<<"is_staff", TRUE>>, <<"is_superuser", TRUE>>, <<"is_active", FALSE>>}

\* a request: the handler asked for, the bearer token (0: none), the body, and
\* what the project's settings decide for it: the verdict of the configured
\* django password checks (register) and the authentication backend (login).
\* No handler keeps anything of either, so they are drawn with each request.
Request(op, token, email, password, confirm, first_name, last_name, django, be) ==
    [op |-> op, token |-> token, email |-> email, password |-> password,
     password_confirm |-> confirm, first_name |-> first_name,
     last_name |-> last_name, extra |-> NoExtra, django |-> django, backend |-> be]

NoRequest ==
    Request("none", 0, Absent, Absent, Absent, Absent, Absent, <<>>, "ModelBackend")

\* the names of a register body: none, both, or one that is too long
RegisterNames ==
    {<<Absent, Absent>>, <<NameShort, NameShort>>, <<NameLong, Absent>>,
     <<Absent, NameLong>>}

\* the django password checks are only reached by a password that passes the
\* rules of validate_password, so their verdict is drawn for PwGood alone
RegisterRequests ==
    {Request("register", 0, e, pd[1], c, n[1], n[2], pd[2], "ModelBackend") :
        e \in EmailInputs,
        pd \in ((PasswordInputs \X {<<>>}) \cup ({PwGood} \X DjangoPasswordChecks)),
        c \in ConfirmInputs, n \in RegisterNames}

\* register bodies that also name is_staff, is_superuser and is_active
FlaggedRegisterRequests ==
    {[Request("register", 0, e, PwGood, PwGood, n[1], n[2], <<>>, "ModelBackend")
        EXCEPT !.extra = ExtraFlags] :
        e \in EmailInputs, n \in RegisterNames}

LoginRequests ==
    {Request("login", 0, e, p, Absent, Absent, Absent, <<>>, be) :
        e \in EmailInputs \cup {EmailUpper, <<>>},
        p \in {PwGood, PwOther, <<>>, Absent},
        be \in Backends}

\* the handlers of update_profile
UpdateOps == {"put", "patch"}

ProfileRequests(us) ==
    {Request(op, t, e, Absent, Absent, f, l, <<>>, "ModelBackend") :
        op \in {"put", "patch"}, t \in 0..Len(us), e \in EmailInputs,
        f \in FirstNameInputs, l \in LastNameInputs}

\* the other keys of an update_profile payload: a password, the flags and a
\* creation time
ProfileExtra ==
    ExtraFlags \cup {<<"password", PwOther>>, <<"created_at", 0>>}

\* update_profile payloads that also name those keys
FlaggedProfileRequests(us) ==
    {[Request(op, t, e, Absent, Absent, f, Absent, <<>>, "ModelBackend")
        EXCEPT !.extra = ProfileExtra] :
        op \in UpdateOps, t \in 0..Len(us), e \in {Absent, EmailLower, EmailOther},
        f \in {Absent, NameShort}}

GetRequests(us) ==
    {Request("get_profile", t, Absent, Absent, Absent, Absent, Absent, <<>>,
             "ModelBackend") : t \in 0..Len(us)}

\* the requests of the two racing registrations
RaceRequests ==
    {Request("register", 0, e, p, PwGood, Absent, l, <<>>, "ModelBackend") :
        e \in {EmailLower, EmailPadded, EmailOther}, p \in {PwGood, PwShort},
        l \in LastNameInputs}

Procs == 1..NProcs

IdleProc == [pc |-> "idle", req |-> NoRequest, attrs |-> <<>>, resp |-> NoResponse]

(***************************************************************************)
(* The state machine.  A handler runs when no response is in flight; the   *)
(* response it returns is then delivered to the client.  While a response  *)
(* is in flight, before is the table as the handler found it.              *)
(***************************************************************************)
Init ==
    /\ users = <<>>
    /\ procs = [p \in Procs |-> IdleProc]
    /\ req = NoRequest
    /\ resp = NoResponse
    /\ before = <<>>

\* POST register/ served without interruption
Register ==
    /\ resp = NoResponse
    /\ \E r \in RegisterRequests \cup FlaggedRegisterRequests :
        LET o == RegisterOutcome(users, r, r.django)
        IN /\ Len(o.users) <= MaxUsers
           /\ req' = r
           /\ before' = users
           /\ users' = o.users
           /\ resp' = o.resp
    /\ UNCHANGED procs

\* POST login/
Login ==
    /\ resp = NoResponse
    /\ \E r \in LoginRequests :
        /\ req' = r
        /\ before' = users
        /\ resp' = LoginOutcome(users, r.backend, r)
    /\ UNCHANGED <<users, procs>>

\* GET profile/
GetProfile ==
    /\ resp = NoResponse
    /\ \E r \in GetRequests(users) :
        /\ req' = r
        /\ before' = users
        /\ resp' = GetProfileOutcome(users, r.token)
    /\ UNCHANGED <<users, procs>>

\* PUT profile/ and PATCH profile/
UpdateProfile ==
    /\ resp = NoResponse
    /\ \E r \in ProfileRequests(users) \cup FlaggedProfileRequests(users) :
        LET o == UpdateOutcome(users, r.token, r, r.op = "patch")
        IN /\ req' = r
           /\ before' = users
           /\ users' = o.users
           /\ resp' = o.resp
    /\ UNCHANGED procs

\* an administrator clears is_active (the field AbstractUser gives the model)
Deactivate ==
    /\ resp = NoResponse
    /\ \E pk \in 1..Len(users) :
        /\ users[pk].is_active
        /\ users' = [users EXCEPT ![pk].is_active = FALSE]
    /\ UNCHANGED <<procs, req, resp, before>>

\* the response reaches the client
Deliver ==
    /\ resp # NoResponse
    /\ req' = NoRequest
    /\ before' = <<>>
    /\ resp' = NoResponse
    /\ UNCHANGED <<users, procs>>

Next == Register \/ Login \/ GetProfile \/ UpdateProfile \/ Deactivate \/ Deliver

Spec == Init /\ [][Next]_vars

(***************************************************************************)
(* Concurrent registrations: each process serves one register request in   *)
(* two steps, is_valid() and save(), and the steps of different processes  *)
(* interleave.                                                             *)
(***************************************************************************)
RegisterValidate(p) ==
    \E r \in RaceRequests :
        LET v == RegistrationIsValid(users, r, r.django)
        IN /\ procs[p].pc = "idle"
           /\ procs' = [procs EXCEPT ![p] =
                  IF HasErrors(v.errors)
                  THEN [pc |-> "done", req |-> r, attrs |-> <<>>,
                        resp |-> ErrorResponse("register", v.errors)]
                  ELSE [pc |-> "validated", req |-> r, attrs |-> v.attrs,
                        resp |-> NoResponse]]
           /\ UNCHANGED <<users, req, resp, before>>

RegisterSave(p) ==
    LET o == RegisterSaveOutcome(users, procs[p].attrs)
    IN /\ procs[p].pc = "validated"
       /\ Len(o.users) <= MaxUsers
       /\ users' = o.users
       /\ procs' = [procs EXCEPT ![p].pc = "done", ![p].resp = o.resp]
       /\ UNCHANGED <<req, resp, before>>

NextRace == \E p \in Procs : RegisterValidate(p) \/ RegisterSave(p)

SpecRace == Init /\ [][NextRace]_vars

(***************************************************************************)
(* Properties.                                                             *)
(***************************************************************************)
\* equal when letter case is ignored
SameIgnoringCase(a, b) == Lower(a) = Lower(b)

\* the email a register request would be stored under
StoredForm(email) == Strip(Lower(NormalizeEmail(email)))

\* a register body that passes every check of is_valid() on an empty table:
\* nothing but the uniqueness of its email can make it fail
PayloadValid(r) == ~HasErrors(RegistrationIsValid(<<>>, r, r.django).errors)

\* the field-keyed DuplicateEmail response
IsDuplicateEmail(r) ==
    r.status = 400 /\ r.errors.email = <<MsgDuplicateEmail>>

\* the store refused the insert and the exception left the view
IsIntegrityError(r) ==
    r.status = 500 /\ r.errors.detail = <<MsgIntegrityError>>

\* a step in which the register handler serves a request
RegisterStep == resp = NoResponse /\ resp'.op = "register"

\* C1: once an Identity holds email E1, a register request, valid but for its
\* email E2 that differs from E1 at most in letter case, is answered with the
\* DuplicateEmail 400 response and creates no Identity.
C1_CaseVariantRejected ==
    [][(/\ RegisterStep
        /\ PayloadValid(req')
        /\ \E i \in 1..Len(users) :
              SameIgnoringCase(users[i].email, Strip(req'.email)))
       => (IsDuplicateEmail(resp') /\ users' = users)]_vars

\* the processes whose register request is valid but for uniqueness and is
\* for the stored email e
Racers(e) ==
    {p \in Procs : /\ procs[p].pc # "idle"
                   /\ PayloadValid(procs[p].req)
                   /\ StoredForm(procs[p].req.email) = e}

Winners(e) == {p \in Racers(e) : procs[p].resp.status = 201}

Holders(e) == {i \in 1..Len(users) : users[i].email = e}

RaceEmails == {StoredForm(r.email) : r \in RaceRequests}

\* C2: of the concurrent register requests for one normalized email at most
\* one creates an Identity; once all of them have been answered exactly one
\* has, every other ended in a conflict (the DuplicateEmail response or the
\* store's IntegrityError), and the store holds exactly one Identity with
\* that email.
C2_ExactlyOneWinner ==
    \A e \in RaceEmails :
        /\ Cardinality(Winners(e)) <= 1
        /\ Cardinality(Holders(e)) = Cardinality(Winners(e))
        /\ (Racers(e) # {} /\ \A p \in Racers(e) : procs[p].pc = "done")
           => /\ Cardinality(Winners(e)) = 1
              /\ Cardinality(Holders(e)) = 1
              /\ \A p \in Racers(e) \ Winners(e) :
                    IsDuplicateEmail(procs[p].resp) \/ IsIntegrityError(procs[p].resp)

\* two requests for one email both passed is_valid(); one saved, the other
\* was refused by the store
C2_Witness ==
    \E p, q \in Procs :
        /\ p # q
        /\ procs[p].pc = "done" /\ procs[q].pc = "done"
        /\ StoredForm(procs[p].req.email) = StoredForm(procs[q].req.email)
        /\ procs[p].resp.status = 201
        /\ IsIntegrityError(procs[q].resp)

\* C3: a register request that passes is_valid() and whose insert the store
\* then refuses as a duplicate is answered with the DuplicateEmail 400
\* response; no exception leaves the view.
C3_StoreConflictMapped ==
    (/\ resp.op = "register"
     /\ resp.status # 201
     /\ ~HasErrors(RegistrationIsValid(users, req, req.django).errors)
     /\ UniqueViolation(users, StoredForm(Strip(req.email)), 0))
    => IsDuplicateEmail(resp)

\* C4: a register request answered 201 adds exactly one Identity and returns
\* one token pair, for that Identity; a register request answered otherwise
\* leaves the store as it was and returns no token.
C4_OneIdentityPerSuccess ==
    [][RegisterStep =>
        IF resp'.status = 201
        THEN /\ Len(users') = Len(users) + 1
             /\ SubSeq(users', 1, Len(users)) = users
             /\ resp'.access = Len(users') /\ resp'.refresh = Len(users')
        ELSE /\ users' = users
             /\ resp'.access = 0 /\ resp'.refresh = 0]_vars

\* a second Identity has just been created
C4_Witness ==
    resp.op = "register" /\ resp.status = 201 /\ Len(users) = 2 /\ resp.access = 2

\* the messages that report each password rule
RuleMessages ==
    [length |-> {MsgPwLength, MsgMinLength}, upper |-> {MsgPwUpper},
     lower |-> {MsgPwLower}, digit |-> {MsgPwDigit}]

\* the rules a password violates
ViolatedRules(pw) ==
    {rule \in DOMAIN RuleMessages :
        \/ rule = "length" /\ Len(pw) < PasswordMinLength
        \/ rule = "upper" /\ ~\E i \in 1..Len(pw) : IsUpper(pw[i])
        \/ rule = "lower" /\ ~\E i \in 1..Len(pw) : IsLower(pw[i])
        \/ rule = "digit" /\ ~\E i \in 1..Len(pw) : IsDigit(pw[i])}

\* C5: a register request whose password violates one or more of the four
\* rules fails with a password error that holds a message for every rule the
\* password violates.
C5_EveryViolatedRuleListed ==
    (resp.op = "register" /\ ViolatedRules(req.password) # {})
    => /\ resp.status = 400
       /\ \A rule \in ViolatedRules(req.password) :
             Range(resp.errors.password) \cap RuleMessages[rule] # {}

BodyFields == {"email", "password", "password_confirm", "first_name", "last_name"}

InvalidCredentials ==
    ErrorResponse("login", [NoErrors EXCEPT !.non_field_errors = <<MsgInvalidCredentials>>])

\* a login body with a well-formed email and a password
LoginWellFormed(r) ==
    /\ r.email \notin {Absent, None} /\ ValidEmailFormat(Strip(r.email))
    /\ r.password \notin {Absent, None} /\ Strip(r.password) # <<>>

\* no Identity has the email of the request, letter case ignored
UnknownEmail(r) ==
    \A i \in 1..Len(users) : ~SameIgnoringCase(users[i].email, Strip(r.email))

\* an Identity has the email of the request, letter case ignored, and its
\* password is not the one of the request
WrongPassword(r) ==
    \E i \in 1..Len(users) :
        /\ SameIgnoringCase(users[i].email, Strip(r.email))
        /\ ~CheckPassword(Strip(r.password), users[i].password)

\* C7: a login with an email that no Identity has and a login with the email
\* of an Identity and a wrong password get the same response, the 400
\* InvalidCredentials response, in every state of the store.
C7_NoEnumeration ==
    (resp.op = "login" /\ LoginWellFormed(req) /\ (UnknownEmail(req) \/ WrongPassword(req)))
    => resp = InvalidCredentials

\* a wrong password for the email of a stored Identity
C7_Witness ==
    /\ resp.op = "login" /\ LoginWellFormed(req)
    /\ \E i \in 1..Len(users) : users[i].email = Strip(req.email)
    /\ WrongPassword(req)
    /\ resp = InvalidCredentials

\* C8: a login with the email and password of an Identity that is not active
\* fails with the AccountDisabled error.
C8_DisabledReported ==
    (/\ resp.op = "login"
     /\ LoginWellFormed(req)
     /\ \E i \in 1..Len(users) :
           /\ users[i].email = Strip(req.email)
           /\ CheckPassword(Strip(req.password), users[i].password)
           /\ ~users[i].is_active)
    => /\ resp.status = 400
       /\ resp.errors.non_field_errors = <<MsgDisabled>>
       /\ resp # InvalidCredentials

\* C9: no two stored Identities have emails equal when letter case is ignored.
C9_CaseInsensitiveUnique ==
    \A i, j \in 1..Len(users) :
        i # j => ~SameIgnoringCase(users[i].email, users[j].email)

\* C10: every stored email is lowercased and has no leading or trailing
\* whitespace.
C10_EmailsNormalized ==
    \A i \in 1..Len(users) : users[i].email = Strip(Lower(users[i].email))

\* a name of more than 30 characters
LongName(v) == v \notin {Absent, None} /\ Len(v) > NameMaxLength

\* the request r without its names
WithoutNames(r) == [r EXCEPT !.first_name = Absent, !.last_name = Absent]

\* the value a name of the body is stored as, when names are truncated
TruncatedName(v) == IF v = Absent THEN None ELSE Truncate(v, NameMaxLength)

\* C11: a register request with a first_name or last_name of more than 30
\* characters is never rejected for the length of the name; when the request
\* without its names would create an Identity, the request creates one that
\* holds exactly the first 30 characters of the long name.
C11_LongNamesTruncated ==
    (/\ resp.op = "register"
     /\ (LongName(req.first_name) \/ LongName(req.last_name)))
    => /\ resp.errors.first_name = <<>> /\ resp.errors.last_name = <<>>
       /\ (RegisterOutcome(before, WithoutNames(req), req.django).resp.status = 201)
          => /\ resp.status = 201
             /\ Len(users) = Len(before) + 1
             /\ users[Len(users)].first_name = TruncatedName(req.first_name)
             /\ users[Len(users)].last_name = TruncatedName(req.last_name)

\* the Identities a login request is for: active, with the email of the
\* request when letter case is ignored and with its password
LoginMatches(r) ==
    {i \in 1..Len(users) :
        /\ SameIgnoringCase(users[i].email, Strip(r.email))
        /\ CheckPassword(Strip(r.password), users[i].password)
        /\ users[i].is_active}

\* C12: a login with the password of an active Identity and an email that
\* differs from the stored one at most in letter case is answered 200 with
\* that Identity and a token pair for it.
C12_LoginIgnoresCase ==
    (resp.op = "login" /\ LoginWellFormed(req) /\ LoginMatches(req) # {})
    => /\ resp.status = 200
       /\ resp.access \in LoginMatches(req) /\ resp.refresh = resp.access
       /\ resp.user = {ProfileData(users[resp.access])}

\* the stored value of a field after an update whose payload holds v for it
Applied(old, v) == IF v = Absent THEN old ELSE v

\* the request in flight is an update_profile by a caller with a valid token
\* whose payload carries the caller's own current email and names that are
\* valid
OwnEmailUpdate ==
    /\ resp.op \in UpdateOps
    /\ IsAuthenticated(before, req.token)
    /\ req.email = before[req.token].email
    /\ ~EmailExists(before, req.email, req.token)
    /\ ~LongName(req.first_name) /\ ~LongName(req.last_name)

\* C13: an update_profile by Identity U whose payload carries U's own
\* current email succeeds: it is answered 200, the names of the payload are
\* stored, U's email and every other Identity stay as they were.
C13_OwnEmailAccepted ==
    OwnEmailUpdate
    => /\ resp.status = 200
       /\ users = [before EXCEPT ![req.token] =
                     [@ EXCEPT !.first_name = Applied(@, req.first_name),
                               !.last_name = Applied(@, req.last_name)]]
       /\ resp.user = {ProfileData(users[req.token])}

\* a PUT with the caller's own email and a new first name, while another
\* Identity is stored
C13_Witness ==
    /\ OwnEmailUpdate
    /\ resp.op = "put"
    /\ Len(before) = 2
    /\ req.first_name = NameShort
    /\ before[req.token].first_name # NameShort
    /\ users[req.token].first_name = NameShort

\* the fields of a profile that a payload can set
ProfileFields == {"email", "first_name", "last_name"}

\* C14: a PATCH leaves every profile field that its payload does not carry
\* as it was in the stored record of the caller.
C14_PatchKeepsAbsentFields ==
    (resp.op = "patch" /\ IsAuthenticated(before, req.token))
    => \A f \in ProfileFields :
          req[f] = Absent => users[req.token][f] = before[req.token][f]

\* a PATCH with a first name alone changed the first name of a record that
\* has a last name
C14_Witness ==
    /\ resp.op = "patch" /\ resp.status = 200
    /\ IsAuthenticated(before, req.token)
    /\ req.first_name = NameShort /\ req.last_name = Absent /\ req.email = Absent
    /\ before[req.token].first_name = None
    /\ users[req.token].first_name = NameShort
    /\ before[req.token].last_name = NameShort
    /\ users[req.token].last_name = NameShort
    /\ users[req.token].email = before[req.token].email

\* C15: for a caller with a valid token, a PUT whose payload has no email is
\* answered 400 with an error on email and a PATCH whose payload has no
\* email gets no error on email; an update_profile request that is not
\* answered 200 leaves the store exactly as it was.
C15_FailedUpdateChangesNothing ==
    resp.op \in UpdateOps
    => /\ (IsAuthenticated(before, req.token) /\ req.email = Absent)
          => IF resp.op = "put"
             THEN resp.status = 400 /\ resp.errors.email = <<MsgRequired>>
             ELSE resp.errors.email = <<>>
       /\ resp.status # 200 => users = before

\* a PUT without email and with a first name the record does not have was
\* refused and changed nothing
C15_Witness ==
    /\ resp.op = "put" /\ resp.status = 400
    /\ IsAuthenticated(before, req.token)
    /\ req.email = Absent
    /\ req.first_name = NameShort
    /\ before[req.token].first_name = None
    /\ users = before

\* the handlers of the profile endpoint
ProfileOps == UpdateOps \cup {"get_profile"}

\* the request carries a valid access token: one issued for a stored Identity
\* that is active
ValidToken(r) == r.token \in 1..Len(before) /\ before[r.token].is_active

\* C16: a GET, PUT or PATCH on the profile endpoint without a valid access
\* token is answered 401, returns no profile data and changes no Identity.
C16_ProfileNeedsToken ==
    (resp.op \in ProfileOps /\ ~ValidToken(req))
    => /\ resp.status = 401
       /\ resp.user = {}
       /\ users = before

\* a PUT without a token, with a payload that a caller could send, on a store
\* that holds an Identity
C16_Witness ==
    /\ resp.op = "put" /\ req.token = 0
    /\ req.email = EmailOther /\ req.first_name = NameShort
    /\ Len(before) >= 1
    /\ resp.status = 401

\* a field of a body that is absent, null or empty
Missing(v) == v \in {Absent, None} \/ Strip(v) = <<>>

\* C17: a login request whose email or password is absent or empty is
\* answered 400 with an error, carries no token and no Identity, and changes
\* nothing in the store.
C17_MissingCredentialsRejected ==
    (resp.op = "login" /\ (Missing(req.email) \/ Missing(req.password)))
    => /\ resp.status = 400
       /\ HasErrors(resp.errors)
       /\ resp.access = 0 /\ resp.refresh = 0
       /\ resp.user = {}
       /\ users = before

\* a login with the email of a stored Identity and no password
C17_Witness ==
    /\ resp.op = "login"
    /\ req.password = Absent
    /\ \E i \in 1..Len(users) : users[i].email = req.email /\ users[i].is_active
    /\ resp.status = 400

\* C18: the Identity that a register request creates is active and is
\* neither staff nor superuser, whatever the body carries; no stored Identity
\* is ever staff or superuser.
C18_DefaultFlags ==
    /\ (resp.op = "register" /\ resp.status = 201)
       => /\ Len(users) = Len(before) + 1
          /\ users[Len(users)].is_active
          /\ ~users[Len(users)].is_staff
          /\ ~users[Len(users)].is_superuser
    /\ \A i \in 1..Len(users) : ~users[i].is_staff /\ ~users[i].is_superuser

\* an Identity was created for a body that names is_staff, is_superuser and
\* is_active
C18_Witness ==
    /\ resp.op = "register" /\ resp.status = 201
    /\ req.extra = ExtraFlags
    /\ Len(users) = Len(before) + 1
    /\ users[Len(users)].is_active /\ ~users[Len(users)].is_staff

\* a name that was not provided: the empty string or None
NotProvided(v) == v = <<>> \/ v = None

\* C19: for every stored Identity get_full_name is first_name, a space and
\* last_name when both names are provided, and is the Identity's email when
\* each name is the empty string or None.
C19_FullNameOrEmail ==
    \A i \in 1..Len(users) :
        LET u == users[i]
        IN /\ (~NotProvided(u.first_name) /\ ~NotProvided(u.last_name))
              => GetFullName(u) = u.first_name \o <<" ">> \o u.last_name
           /\ (NotProvided(u.first_name) /\ NotProvided(u.last_name))
              => GetFullName(u) = u.email

\* the login request in flight holds the email and the password of a stored
\* Identity that is deactivated
DeactivatedLogin ==
    /\ resp.op = "login"
    /\ LoginWellFormed(req)
    /\ \E i \in 1..Len(users) :
          /\ users[i].email = Strip(req.email)
          /\ CheckPassword(Strip(req.password), users[i].password)
          /\ ~users[i].is_active

\* C20: a 200 login response carries a token pair for a stored Identity that
\* is active at that moment; a login with the credentials of a deactivated
\* Identity is answered 400 without tokens.
C20_NoTokenForDeactivated ==
    /\ (resp.op = "login" /\ resp.status = 200)
       => /\ resp.access \in 1..Len(users) /\ resp.refresh = resp.access
          /\ users[resp.access].is_active
    /\ (resp.op = "login" /\ (resp.access # 0 \/ resp.refresh # 0))
       => resp.status = 200
    /\ DeactivatedLogin
       => resp.status = 400 /\ resp.access = 0 /\ resp.refresh = 0

\* a deactivated Identity tried to log in with its own credentials
C20_Witness ==
    /\ DeactivatedLogin
    /\ resp.status = 400 /\ resp.access = 0

\* the fields of an Identity that update_profile may not change
FrozenFields == {"password", "is_active", "is_staff", "is_superuser", "created_at"}

\* C21: an update_profile request (PUT or PATCH) adds and removes no
\* Identity, leaves every Identity but the caller's exactly as it was, and
\* leaves the password, the activation, staff and superuser flags and the
\* creation time of the caller's Identity as they were, also when the
\* payload names them.
C21_UpdateFrame ==
    resp.op \in UpdateOps
    => /\ Len(users) = Len(before)
       /\ \A i \in 1..Len(before) :
             /\ i # req.token => users[i] = before[i]
             /\ \A f \in FrozenFields : users[i][f] = before[i][f]

\* an update whose payload names a password, the flags and a creation time
\* changed the caller's email and first name, while another Identity is
\* stored
C21_Witness ==
    /\ resp.op \in UpdateOps /\ resp.status = 200
    /\ req.extra = ProfileExtra
    /\ Len(before) = 2
    /\ users[req.token].email # before[req.token].email
    /\ users[req.token].first_name # before[req.token].first_name

====
